---- MODULE Spec2Model ----
(***************************************************************************)
(* Model of the event distribution layer of ibind's REST service:          *)
(*   - RateLimitMiddleware (src/ibind/service/config.py)                   *)
(*   - the websocket registry _connections, _broadcast and websocket_feed  *)
(*     (src/ibind/rest_service.py)                                         *)
(* The service runs on one asyncio event loop: code between two awaits is  *)
(* one atomic step, every await is a point where other coroutines run.     *)
(***************************************************************************)
EXTENDS Integers, Sequences, FiniteSets, TLC

(***************************************************************************)
(* Bounds of the model and constants of the program                        *)
(***************************************************************************)
\* seconds of the trailing window: minute_ago = current_time - 60
WINDOW == 60
\* RateLimitMiddleware(requests_per_minute=...): the configured limit
requests_per_minute == 2
\* number of HTTP requests that pass through the middleware in one run
NumReqs == 4
\* the clock readings of time.time() stop growing here
MaxTime == 62
\* client addresses (request.client.host)
Clients == {"a", "b"}
\* amounts by which the clock advances between two steps
TickSteps == {31, 60}

\* number of websocket clients that connect to /ws in one run
NumSockets == 3
\* number of route calls that emit an event (_send_event) in one run
NumTasks == 2
\* number of those route calls whose arguments vary (the others are calls of
\* get_accounts)
NumEmits == 1

\* await asyncio.sleep(5): seconds between two updates of a stream
UpdateInterval == 5
\* await asyncio.sleep(10): seconds a stream waits after an error
ErrorInterval == 10
\* number of /stream/market-data requests that are served in one run
NumSessions == 1
\* number of further sessions that are served at the same time as those
NumPeers == 1
\* number of fetches a streaming session makes in one run
MaxCycles == 3
\* the event loop's clock stops growing here
MaxNow == 20
\* amount by which the event loop's clock advances in one step
TimeStep == 5

Reqs == 1..NumReqs
NoTime == -1
NoClient == "none"
Sockets == 1..NumSockets
Tasks == 1..NumTasks
NoSocket == 0
\* the route calls of a run in which the arguments of _send_event vary
Emits == 1..NumEmits
\* the source tags the routes pass as "endpoint"
Endpoints == {"/portfolio/accounts", "/ledger"}
\* kinds of value passed as "data" or "req": JSON data (dict, list, str), a
\* pydantic model (OrderEnvelope, RulesEnvelope), an object that
\* jsonable_encoder cannot convert
Payloads == {"json", "model", "opaque"}
\* Python's None (req defaults to it)
None == "None"
Sessions == 1..NumSessions
\* those sessions and the ones served at the same time
AllSessions == 1..(NumSessions + NumPeers)

\* largest max_retries a function is decorated with
MaxRetries == 3

\* largest delay a function is decorated with
MaxDelay == 2

\* the defaults of retry_on_failure's arguments
DefaultMaxRetries == 3

DefaultDelay == 1

\* the values of max_retries: range(max_retries + 1) is empty for -1
RetryChoices == -1..MaxRetries

Delays == 1..MaxDelay

\* the exceptions func raises that "except Exception" catches
ExcKinds == {"ConnectionError", "TimeoutError"}

\* an exception is told from every other by the attempt that raised it
NoExc == <<>>

NoAttempt == 0
NoSession == 0
\* what a fetch cycle yields: the data event or the error event
Outcomes == {"data", "error"}
\* how the try block ends before its yield: live_marketdata_snapshot returned
\* and the event was built, or an exception was raised
FetchResults == {"returned", "raised"}

VARIABLES
    clock,          \* time.time()
    requests,       \* RateLimitMiddleware.requests: client_ip -> deque of timestamps
    rpc,            \* position of each request in RateLimitMiddleware.dispatch
    rip,            \* request.client.host of each request
    rtime,          \* current_time read by each request's dispatch
    rresp,          \* what dispatch returned for the request
    rcalls,         \* number of times call_next was invoked for the request
    connections,    \* _connections: the set of registered WebSocket handles
    wpc,            \* position of each websocket_feed handler
    epc,            \* position of each route call inside _broadcast
    it_used,        \* set iterator of "for ws in _connections": size at creation
    todo,           \* set iterator: the handles it has not yielded yet
    cur,            \* ws: the handle whose send_json is awaited
    failed,         \* per broadcast: the handles whose send raised
    recv,           \* per handle: the messages it received, in order
    issued,         \* per handle: the broadcasts that called its send_json, in order
    start,          \* per broadcast: _connections when the broadcast began
    quiet,          \* per broadcast: _connections has not changed since it began
    call,           \* per route call: the arguments it gave to _send_event
    message,        \* per route call: the envelope _send_event gave to _broadcast
    bcalls,         \* per route call: number of times _send_event invoked _broadcast
    loop_time,      \* the event loop's clock, in seconds
    busy,           \* the session whose synchronous fetch occupies the event loop
    spc,            \* position of each generate_market_data generator
    wake,           \* per session: the time at which its asyncio.sleep is due
    out,            \* per session: the events it has yielded, in order
    emit_at,        \* per session: the time of its last yield
    fetches,        \* per session: number of calls of live_marketdata_snapshot
    results,        \* per session: how each of its fetches ended, in order
    cancel_req,     \* per session: its consumer has disconnected
    max_retries,    \* retry_on_failure: its argument max_retries
    delay,          \* retry_on_failure: its argument delay
    is_coro,        \* asyncio.iscoroutinefunction(func) of the decorated func
    rt_pc,          \* position of the wrapper
    attempt,        \* the loop variable of the wrapper
    last_exception, \* the wrapper's local last_exception
    calls,          \* number of invocations of func
    rt_log,         \* what happened in order: an attempt's outcome or a sleep
    returned,       \* the attempt whose result the wrapper returned
    raised,         \* the exception the wrapper raised
    waited          \* total time spent in asyncio.sleep(delay)

rlvars == <<clock, requests, rpc, rip, rtime, rresp, rcalls>>

evvars == <<call, message, bcalls>>

bcvars == <<connections, wpc, epc, it_used, todo, cur, failed, recv, issued, start, quiet,
            call, message, bcalls>>

ssvars == <<loop_time, busy, spc, wake, out, emit_at, fetches, results, cancel_req>>

rtvars == <<max_retries, delay, is_coro, rt_pc, attempt, last_exception, calls,
            rt_log, returned, raised, waited>>

vars == <<clock, requests, rpc, rip, rtime, rresp, rcalls,
          connections, wpc, epc, it_used, todo, cur, failed, recv, issued, start, quiet,
          call, message, bcalls,
          loop_time, busy, spc, wake, out, emit_at, fetches, results, cancel_req,
          max_retries, delay, is_coro, rt_pc, attempt, last_exception, calls,
          rt_log, returned, raised, waited>>

(***************************************************************************)
(* RateLimitMiddleware                                                     *)
(***************************************************************************)
\* self.requests[client_ip] on a defaultdict(deque): a missing key reads as an
\* empty deque (and is created by the access)
WindowOf(reqs, client_ip) ==
    IF client_ip \in DOMAIN reqs THEN reqs[client_ip] ELSE <<>>

\* mutant: every client shares one deque
DictSetShared(reqs, client_ip, w) ==
    [k \in DOMAIN reqs \cup {client_ip} |-> w]

\* the dict after the deque of client_ip has become w
DictSet(reqs, client_ip, w) ==
    [k \in DOMAIN reqs \cup {client_ip} |-> IF k = client_ip THEN w ELSE reqs[k]]

\* mutant: "if" in place of "while", only one old entry is dropped
PopOneStale(w, minute_ago) ==
    IF w # <<>> /\ w[1] < minute_ago THEN Tail(w) ELSE w

\* mutant: "<=" in place of "<", an entry exactly 60 seconds old is dropped
RECURSIVE PopStaleInclusive(_, _)
PopStaleInclusive(w, minute_ago) ==
    IF w # <<>> /\ w[1] <= minute_ago THEN PopStaleInclusive(Tail(w), minute_ago) ELSE w

\* while self.requests[client_ip] and self.requests[client_ip][0] < minute_ago:
\*     self.requests[client_ip].popleft()
RECURSIVE PopStale(_, _)
PopStale(w, minute_ago) ==
    IF w # <<>> /\ w[1] < minute_ago THEN PopStale(Tail(w), minute_ago) ELSE w

\* mutant: ">" in place of ">="
OverLimitOffByOne(w) == Len(w) > requests_per_minute

\* if len(self.requests[client_ip]) >= self.requests_per_minute:
OverLimit(w) == Len(w) >= requests_per_minute

\* mutant: the window is compared before the old entries are dropped
CleanedLate(reqs, client_ip, current_time) == WindowOf(reqs, client_ip)

\* the window the limit is compared against: the deque after the cleaning loop
Cleaned(reqs, client_ip, current_time) ==
    PopStale(WindowOf(reqs, client_ip), current_time - WINDOW)

\* mutant: the rejected attempt is recorded too
RejectedWindowRecorded(w, current_time) == Append(w, current_time)

\* the deque a rejected request leaves behind: nothing appended
RejectedWindow(w, current_time) == w

\* mutant: the early return is missing, a rejected request falls through
AfterRejectFallThrough == "call_next"

\* return JSONResponse(status_code=429, ...): dispatch is over
AfterReject == "done"

\* a request reaches the middleware (requests are numbered in arrival order)
Arrive(r, ip) ==
    /\ rpc[r] = "idle"
    /\ \A q \in Reqs : q < r => rpc[q] # "idle"
    /\ rpc' = [rpc EXCEPT ![r] = "dispatch"]
    /\ rip' = [rip EXCEPT ![r] = ip]
    /\ UNCHANGED <<clock, requests, rtime, rresp, rcalls, bcvars, ssvars, rtvars>>

\* mutant: an await between the check and the append; the request waits at
\* "checked" while other requests run
DispatchRacy(r) ==
    \/ /\ rpc[r] = "dispatch"
       /\ LET w == Cleaned(requests, rip[r], clock)
          IN  /\ rtime' = [rtime EXCEPT ![r] = clock]
              /\ requests' = DictSet(requests, rip[r], w)
              /\ IF OverLimit(w)
                 THEN /\ rresp' = [rresp EXCEPT ![r] = "429"]
                      /\ rpc' = [rpc EXCEPT ![r] = "done"]
                 ELSE /\ rresp' = rresp
                      /\ rpc' = [rpc EXCEPT ![r] = "checked"]
       /\ UNCHANGED <<clock, rip, rcalls, bcvars, ssvars, rtvars>>
    \/ /\ rpc[r] = "checked"
       /\ requests' = DictSet(requests, rip[r],
                              Append(WindowOf(requests, rip[r]), rtime[r]))
       /\ rpc' = [rpc EXCEPT ![r] = "call_next"]
       /\ UNCHANGED <<clock, rip, rtime, rresp, rcalls, bcvars, ssvars, rtvars>>

\* dispatch from its first line to the 429 response or to "await call_next":
\* no await in between, so one step of the event loop
Dispatch(r) ==
    /\ rpc[r] = "dispatch"
    /\ LET client_ip == rip[r]
           current_time == clock
           w == Cleaned(requests, client_ip, current_time)
       IN  /\ rtime' = [rtime EXCEPT ![r] = current_time]
           /\ IF OverLimit(w)
              THEN /\ requests' = DictSet(requests, client_ip,
                                          RejectedWindow(w, current_time))
                   /\ rresp' = [rresp EXCEPT ![r] = "429"]
                   /\ rpc' = [rpc EXCEPT ![r] = AfterReject]
              ELSE /\ requests' = DictSet(requests, client_ip,
                                          Append(w, current_time))
                   /\ rresp' = rresp
                   /\ rpc' = [rpc EXCEPT ![r] = "call_next"]
    /\ UNCHANGED <<clock, rip, rcalls, bcvars, ssvars, rtvars>>

\* return await call_next(request): the downstream handler answers
CallNext(r) ==
    /\ rpc[r] = "call_next"
    /\ rcalls' = [rcalls EXCEPT ![r] = @ + 1]
    /\ rresp' = [rresp EXCEPT ![r] = IF @ = "none" THEN "downstream" ELSE @]
    /\ rpc' = [rpc EXCEPT ![r] = "done"]
    /\ UNCHANGED <<clock, requests, rip, rtime, bcvars, ssvars, rtvars>>

\* time passes (the clock never goes back)
Tick(d) ==
    /\ clock + d <= MaxTime
    /\ clock' = clock + d
    /\ UNCHANGED <<requests, rpc, rip, rtime, rresp, rcalls, bcvars, ssvars, rtvars>>

RLInit ==
    /\ clock = 0
    /\ requests = <<>>
    /\ rpc = [r \in Reqs |-> "idle"]
    /\ rip = [r \in Reqs |-> NoClient]
    /\ rtime = [r \in Reqs |-> NoTime]
    /\ rresp = [r \in Reqs |-> "none"]
    /\ rcalls = [r \in Reqs |-> 0]

RLNext ==
    \/ \E r \in Reqs, ip \in Clients : Arrive(r, ip)
    \/ \E r \in Reqs : Dispatch(r)
    \/ \E r \in Reqs : CallNext(r)
    \/ \E d \in TickSteps : Tick(d)

(***************************************************************************)
(* _connections, websocket_feed and _broadcast                             *)
(***************************************************************************)
\* the broadcasts suspended at "await ws.send_json(message)": their set
\* iterators are alive while the registry changes
Suspended == {t \in Tasks : epc[t] \in {"sending", "blocked"}}

\* _connections.add(ws)
RegistryAdd(S, h) == S \cup {h}

\* mutant: discard leaves the handle in the set
RegistryDiscardKeeps(S, h) == S

\* _connections.discard(ws)
RegistryDiscard(S, h) == S \ {h}

\* websocket_feed: await ws.accept(); _connections.add(ws); then it waits in
\* receive_text. A handle is a new object each time; the handles are numbered
\* by their place in the hash table of the set, whatever the order in which
\* they connect. A set that grows while it is iterated shows the new element
\* to an iterator or not, and may be rebuilt, so the iterators alive at that
\* moment lose the table order.
Accept(h) ==
    /\ wpc[h] = "none"
    /\ wpc' = [wpc EXCEPT ![h] = "receiving"]
    /\ connections' = RegistryAdd(connections, h)
    /\ \E ahead \in SUBSET Suspended :
           todo' = [t \in Tasks |-> IF t \in ahead THEN todo[t] \cup {h} ELSE todo[t]]
    /\ quiet' = [t \in Tasks |-> quiet[t] /\ t \notin Suspended]
    /\ UNCHANGED <<epc, it_used, cur, failed, recv, issued, start, evvars, rlvars, ssvars, rtvars>>

\* websocket_feed: receive_text raises WebSocketDisconnect;
\* except WebSocketDisconnect: _connections.discard(ws)
Disconnect(h) ==
    /\ wpc[h] = "receiving"
    /\ wpc' = [wpc EXCEPT ![h] = "closed"]
    /\ connections' = RegistryDiscard(connections, h)
    /\ todo' = [t \in Tasks |-> todo[t] \ {h}]
    /\ quiet' = [t \in Tasks |-> quiet[t] /\ (t \notin Suspended \/ h \notin connections)]
    /\ UNCHANGED <<epc, it_used, cur, failed, recv, issued, start, evvars, rlvars, ssvars, rtvars>>

\* websocket_feed: receive_text raises something that is no WebSocketDisconnect
\* (a binary frame has no "text" key; the handler task is cancelled): the except
\* clause does not match and the handler ends without the discard
FeedError(h) ==
    /\ wpc[h] = "receiving"
    /\ wpc' = [wpc EXCEPT ![h] = "crashed"]
    /\ UNCHANGED <<connections, epc, it_used, todo, cur, failed, recv, issued, start, quiet, evvars, rlvars, ssvars, rtvars>>

\* the handle of a non-empty set that comes first in the hash table
TableFirst(S) == CHOOSE m \in S : \A o \in S : m <= o

\* "for ws in _connections": next() of the set iterator. It raises RuntimeError
\* (Set changed size during iteration) when the set's size is not the size the
\* iterator was created with; the for statement is outside the try block, so
\* the error leaves _broadcast. At the end of the set the loop over the empty
\* list "dead" follows and _broadcast returns. An iterator over a set that has
\* not changed since it was created yields the handles in table order (two
\* such iterators agree); after a change the order of the rest is unspecified.
\* The send to the handle it yields is started in the same step.
IterNext(t, used, remaining, undisturbed) ==
    IF used # Cardinality(connections)
    THEN /\ epc' = [epc EXCEPT ![t] = "raised"]
         /\ cur' = [cur EXCEPT ![t] = NoSocket]
         /\ todo' = [todo EXCEPT ![t] = {}]
         /\ it_used' = [it_used EXCEPT ![t] = 0]
         /\ issued' = issued
    ELSE IF remaining = {}
    THEN /\ epc' = [epc EXCEPT ![t] = "returned"]
         /\ cur' = [cur EXCEPT ![t] = NoSocket]
         /\ todo' = [todo EXCEPT ![t] = {}]
         /\ it_used' = [it_used EXCEPT ![t] = 0]
         /\ issued' = issued
    ELSE \E ws \in (IF undisturbed THEN {TableFirst(remaining)} ELSE remaining) :
         /\ epc' = [epc EXCEPT ![t] = "sending"]
         /\ cur' = [cur EXCEPT ![t] = ws]
         /\ todo' = [todo EXCEPT ![t] = remaining \ {ws}]
         /\ it_used' = [it_used EXCEPT ![t] = used]
         /\ issued' = [issued EXCEPT ![ws] = Append(@, t)]

\* fastapi.encoders.jsonable_encoder: JSON data comes back as it is, a pydantic
\* model becomes a dict
jsonable_encoder(x) == IF x = "model" THEN "json" ELSE x

\* jsonable_encoder raises ValueError for an object it cannot convert
EncoderRaises(x) == x = "opaque"

\* the dict literal of _send_event: the time stamp, the source tag, the
\* converted payload and the converted request, None when no request is given
Envelope(endpoint, data, req) ==
    [time |-> clock,
     endpoint |-> endpoint,
     data |-> jsonable_encoder(data),
     req |-> IF req # None THEN jsonable_encoder(req) ELSE None]

\* a route calls _send_event(endpoint, data, req). The dict literal is
\* evaluated first: an exception of jsonable_encoder leaves _send_event before
\* _broadcast is called. Otherwise _broadcast(message) is awaited: the iterator
\* is created and the first send is started without an await in between.
SendEvent(t, endpoint, data, req) ==
    /\ epc[t] = "idle"
    /\ \A u \in Tasks : u < t => epc[u] # "idle"
    /\ call' = [call EXCEPT ![t] = <<[endpoint |-> endpoint, data |-> data, req |-> req]>>]
    /\ IF EncoderRaises(data) \/ (req # None /\ EncoderRaises(req))
       THEN /\ epc' = [epc EXCEPT ![t] = "encoder_raised"]
            /\ UNCHANGED <<message, bcalls, start, quiet, it_used, todo, cur, issued>>
       ELSE /\ message' = [message EXCEPT ![t] = <<Envelope(endpoint, data, req)>>]
            /\ bcalls' = [bcalls EXCEPT ![t] = @ + 1]
            /\ start' = [start EXCEPT ![t] = connections]
            /\ quiet' = [quiet EXCEPT ![t] = TRUE]
            /\ IterNext(t, Cardinality(connections), connections, TRUE)
    /\ UNCHANGED <<connections, wpc, failed, recv, rlvars, ssvars, rtvars>>

\* get_accounts: data = client.portfolio_accounts().data;
\* await _send_event('/portfolio/accounts', data)
Begin(t) == SendEvent(t, "/portfolio/accounts", "json", None)

\* the place of broadcast t among the sends started on handle h
IssuePos(h, t) == CHOOSE i \in 1..Len(issued[h]) : issued[h][i] = t

\* await ws.send_json(message) returns: the handle has the message; the loop
\* goes on to the next handle. The frames of one connection are written in the
\* order in which the sends were started, and the sends complete in that order:
\* a send does not return while an earlier send to the same handle is pending.
SendOk(t) ==
    /\ epc[t] = "sending"
    /\ wpc[cur[t]] = "receiving"
    /\ \A u \in Tasks :
           (u # t /\ epc[u] \in {"sending", "blocked"} /\ cur[u] = cur[t]) =>
               IssuePos(cur[t], t) < IssuePos(cur[t], u)
    /\ recv' = [recv EXCEPT ![cur[t]] = Append(@, t)]
    /\ IterNext(t, it_used[t], todo[t], quiet[t])
    /\ UNCHANGED <<connections, wpc, failed, start, quiet, evvars, rlvars, ssvars, rtvars>>

\* mutant: no try/except around the send, the exception leaves _broadcast
SendFailAborts(t) ==
    /\ epc[t] = "sending"
    /\ failed' = [failed EXCEPT ![t] = @ \cup {cur[t]}]
    /\ epc' = [epc EXCEPT ![t] = "raised"]
    /\ cur' = [cur EXCEPT ![t] = NoSocket]
    /\ todo' = [todo EXCEPT ![t] = {}]
    /\ it_used' = [it_used EXCEPT ![t] = 0]
    /\ UNCHANGED <<connections, wpc, recv, issued, start, quiet, evvars, rlvars, ssvars, rtvars>>

\* mutant: the handle whose send raised is taken out of the registry
SendFailDiscards(t) ==
    /\ epc[t] = "sending"
    /\ failed' = [failed EXCEPT ![t] = @ \cup {cur[t]}]
    /\ connections' = RegistryDiscard(connections, cur[t])
    /\ IterNext(t, it_used[t], todo[t], quiet[t])
    /\ UNCHANGED <<wpc, recv, start, quiet, evvars, rlvars, ssvars, rtvars>>

\* await ws.send_json(message) raises: except Exception prints the error (the
\* line dead.append(ws) is commented out) and the loop goes on
SendFail(t) ==
    /\ epc[t] = "sending"
    /\ failed' = [failed EXCEPT ![t] = @ \cup {cur[t]}]
    /\ IterNext(t, it_used[t], todo[t], quiet[t])
    /\ UNCHANGED <<connections, wpc, recv, start, quiet, evvars, rlvars, ssvars, rtvars>>

\* await ws.send_json(message) never completes (the peer has stopped reading):
\* no timeout surrounds the await, the coroutine stays there for good
SendBlock(t) ==
    /\ epc[t] = "sending"
    /\ wpc[cur[t]] = "receiving"
    /\ epc' = [epc EXCEPT ![t] = "blocked"]
    /\ UNCHANGED <<connections, wpc, it_used, todo, cur, failed, recv, issued, start, quiet, evvars, rlvars, ssvars, rtvars>>

BCInit ==
    /\ connections = {}
    /\ wpc = [h \in Sockets |-> "none"]
    /\ epc = [t \in Tasks |-> "idle"]
    /\ it_used = [t \in Tasks |-> 0]
    /\ todo = [t \in Tasks |-> {}]
    /\ cur = [t \in Tasks |-> NoSocket]
    /\ failed = [t \in Tasks |-> {}]
    /\ recv = [h \in Sockets |-> <<>>]
    /\ issued = [h \in Sockets |-> <<>>]
    /\ start = [t \in Tasks |-> {}]
    /\ quiet = [t \in Tasks |-> TRUE]
    /\ call = [t \in Tasks |-> <<>>]
    /\ message = [t \in Tasks |-> <<>>]
    /\ bcalls = [t \in Tasks |-> 0]

BCNext ==
    \/ \E h \in Sockets : Accept(h)
    \/ \E h \in Sockets : Disconnect(h)
    \/ \E h \in Sockets : FeedError(h)
    \/ \E t \in Tasks : Begin(t)
    \/ \E t \in Tasks : SendOk(t)
    \/ \E t \in Tasks : SendFail(t)
    \/ \E t \in Tasks : SendBlock(t)

\* the registry and the broadcasts of route calls with any arguments
EVNext ==
    \/ \E h \in Sockets : Accept(h)
    \/ \E h \in Sockets : Disconnect(h)
    \/ \E h \in Sockets : FeedError(h)
    \/ \E t \in Emits : \E e \in Endpoints : \E d \in Payloads : \E r \in Payloads \cup {None} :
           SendEvent(t, e, d, r)
    \/ \E t \in Emits : SendOk(t)
    \/ \E t \in Emits : SendFail(t)
    \/ \E t \in Emits : SendBlock(t)

(***************************************************************************)
(* stream_market_data.generate_market_data                                 *)
(***************************************************************************)
\* mutant: the same sleep after a data event and after an error event
DelayAlwaysShort(outcome) == UpdateInterval

\* asyncio.sleep(5) follows the yield of the data event in the try block,
\* asyncio.sleep(10) follows the yield of the error event in the except block
Delay(outcome) == IF outcome = "data" THEN UpdateInterval ELSE ErrorInterval

\* the event a session yielded last
LastOut(s) == out[s][Len(out[s])]

\* StreamingResponse starts to iterate the generator: get_client(),
\* fields.split, client.receive_brokerage_accounts() run outside the try block,
\* an exception there ends the generator. Otherwise the loop is entered and
\* live_marketdata_snapshot is called: a synchronous call, the event loop runs
\* nothing else until it returns.
Open(s, ok) ==
    /\ spc[s] = "new"
    /\ busy = NoSession
    /\ IF ok
       THEN /\ spc' = [spc EXCEPT ![s] = "fetching"]
            /\ busy' = s
            /\ fetches' = [fetches EXCEPT ![s] = @ + 1]
       ELSE /\ spc' = [spc EXCEPT ![s] = "failed"]
            /\ UNCHANGED <<busy, fetches>>
    /\ UNCHANGED <<loop_time, wake, out, emit_at, results, cancel_req, rlvars, bcvars, rtvars>>

\* mutant: the except block yields nothing of its own, every cycle ends with
\* the data event
YieldForAlwaysData(result) == "data"

\* the try block yields the data event; "except Exception" yields the error
\* event
YieldFor(result) == IF result = "returned" THEN "data" ELSE "error"

\* live_marketdata_snapshot returns and the data event is yielded, or an
\* exception is raised in the try block and the except block yields the error
\* event. The generator is suspended at the yield, the event loop is free.
FetchReturn(s, result) ==
    /\ spc[s] = "fetching"
    /\ busy = s
    /\ spc' = [spc EXCEPT ![s] = "yielded"]
    /\ results' = [results EXCEPT ![s] = Append(@, result)]
    /\ out' = [out EXCEPT ![s] = Append(@, YieldFor(result))]
    /\ emit_at' = [emit_at EXCEPT ![s] = loop_time]
    /\ busy' = NoSession
    /\ UNCHANGED <<loop_time, wake, fetches, cancel_req, rlvars, bcvars, rtvars>>

\* the consumer has taken the event: the generator goes on to
\* await asyncio.sleep(5) after a data event, asyncio.sleep(10) after an error
Resume(s) ==
    /\ spc[s] = "yielded"
    /\ busy = NoSession
    /\ ~cancel_req[s]
    /\ spc' = [spc EXCEPT ![s] = "sleeping"]
    /\ wake' = [wake EXCEPT ![s] = loop_time + Delay(LastOut(s))]
    /\ UNCHANGED <<loop_time, busy, out, emit_at, fetches, results, cancel_req, rlvars, bcvars, rtvars>>

\* the sleep is over: "while True" starts the next fetch
Wake(s) ==
    /\ spc[s] = "sleeping"
    /\ busy = NoSession
    /\ ~cancel_req[s]
    /\ loop_time >= wake[s]
    /\ fetches[s] < MaxCycles
    /\ spc' = [spc EXCEPT ![s] = "fetching"]
    /\ busy' = s
    /\ fetches' = [fetches EXCEPT ![s] = @ + 1]
    /\ wake' = [wake EXCEPT ![s] = NoTime]
    /\ UNCHANGED <<loop_time, out, emit_at, results, cancel_req, rlvars, bcvars, rtvars>>

\* the consumer of an open stream disconnects (or the request is torn down).
\* This happens outside the service, at any moment, also while a synchronous
\* fetch keeps the event loop; nothing in generate_market_data looks for it.
Hangup(s) ==
    /\ spc[s] \in {"fetching", "yielded", "sleeping"}
    /\ ~cancel_req[s]
    /\ cancel_req' = [cancel_req EXCEPT ![s] = TRUE]
    /\ UNCHANGED <<loop_time, busy, spc, wake, out, emit_at, fetches, results,
                   rlvars, bcvars, rtvars>>

\* the event loop handles the disconnect: StreamingResponse cancels the task,
\* the generator is closed at the yield or the sleep at which it is suspended;
\* CancelledError and GeneratorExit are no Exception, the except block does not
\* catch them. A generator inside live_marketdata_snapshot is not suspended:
\* the loop handles nothing before the call returns.
Cancel(s) ==
    /\ spc[s] \in {"yielded", "sleeping"}
    /\ busy = NoSession
    /\ cancel_req[s]
    /\ spc' = [spc EXCEPT ![s] = "closed"]
    /\ wake' = [wake EXCEPT ![s] = NoTime]
    /\ UNCHANGED <<loop_time, busy, out, emit_at, fetches, results, cancel_req, rlvars, bcvars, rtvars>>

\* time passes, also while a synchronous fetch keeps the event loop
Elapse ==
    /\ loop_time < MaxNow
    /\ loop_time' = loop_time + TimeStep
    /\ UNCHANGED <<busy, spc, wake, out, emit_at, fetches, results, cancel_req, rlvars, bcvars, rtvars>>

SSInit ==
    /\ loop_time = 0
    /\ busy = NoSession
    /\ spc = [s \in AllSessions |-> "new"]
    /\ wake = [s \in AllSessions |-> NoTime]
    /\ out = [s \in AllSessions |-> <<>>]
    /\ emit_at = [s \in AllSessions |-> NoTime]
    /\ fetches = [s \in AllSessions |-> 0]
    /\ results = [s \in AllSessions |-> <<>>]
    /\ cancel_req = [s \in AllSessions |-> FALSE]

SSNext ==
    \/ \E s \in Sessions : \E ok \in BOOLEAN : Open(s, ok)
    \/ \E s \in Sessions : \E result \in FetchResults : FetchReturn(s, result)
    \/ \E s \in Sessions : Resume(s)
    \/ \E s \in Sessions : Wake(s)
    \/ \E s \in Sessions : Hangup(s)
    \/ \E s \in Sessions : Cancel(s)
    \/ Elapse

\* every /stream/market-data request runs its own generator on the one event
\* loop
SCNext ==
    \/ \E s \in AllSessions : \E ok \in BOOLEAN : Open(s, ok)
    \/ \E s \in AllSessions : \E result \in FetchResults : FetchReturn(s, result)
    \/ \E s \in AllSessions : Resume(s)
    \/ \E s \in AllSessions : Wake(s)
    \/ \E s \in AllSessions : Hangup(s)
    \/ \E s \in AllSessions : Cancel(s)
    \/ Elapse

(***************************************************************************)
(* retry_on_failure                                                        *)
(***************************************************************************)

\* the number of the attempt the loop is in, counted from 1
AttemptNo == attempt + 1

\* mutant: the first failure is kept
RememberFirst(prev, e) == IF prev = NoExc THEN e ELSE prev

\* last_exception = e
Remember(prev, e) == e

\* mutant: a sleep follows the last failure too
RetryLeftInclusive(att, m) == att <= m

\* if attempt < max_retries
RetryLeft(att, m) == att < m

\* raise last_exception: with nothing caught it is "raise None", a TypeError
\* of the interpreter
RaiseLast(last) == IF last = NoExc THEN <<NoAttempt, "TypeError">> ELSE last

\* the for statement takes the next value of range(max_retries + 1) or, the
\* range exhausted, falls through to the raise after the loop
ForNext(att, last) ==
    IF att <= max_retries
    THEN /\ rt_pc' = "loop"
         /\ attempt' = att
         /\ raised' = raised
    ELSE /\ rt_pc' = "raised"
         /\ attempt' = attempt
         /\ raised' = RaiseLast(last)

\* @retry_on_failure(m, d) applied to a function
Decorate(m, d, c) ==
    /\ rt_pc = "defined"
    /\ max_retries' = m
    /\ delay' = d
    /\ is_coro' = c
    /\ rt_pc' = "decorated"
    /\ UNCHANGED <<attempt, last_exception, calls, rt_log, returned, raised, waited,
                   rlvars, bcvars, ssvars>>

\* the wrapper is called and enters the for statement
Enter ==
    /\ rt_pc = "decorated"
    /\ ForNext(0, NoExc)
    /\ UNCHANGED <<max_retries, delay, is_coro, last_exception, calls, rt_log,
                   returned, waited, rlvars, bcvars, ssvars>>

\* the try block calls func, awaited or not
Invoke ==
    /\ rt_pc = "loop"
    /\ calls' = calls + 1
    /\ rt_pc' = "in_call"
    /\ UNCHANGED <<max_retries, delay, is_coro, attempt, last_exception, rt_log,
                   returned, raised, waited, rlvars, bcvars, ssvars>>

\* mutant: the result is kept but the loop goes on while rounds are left
CallReturnsGoesOn ==
    /\ rt_pc = "in_call"
    /\ rt_log' = Append(rt_log, "ok")
    /\ returned' = AttemptNo
    /\ IF attempt < max_retries
       THEN rt_pc' = "loop" /\ attempt' = attempt + 1
       ELSE rt_pc' = "returned" /\ attempt' = attempt
    /\ UNCHANGED <<max_retries, delay, is_coro, last_exception, calls,
                   raised, waited, rlvars, bcvars, ssvars>>

\* func returns: the wrapper returns its result at once
CallReturns ==
    /\ rt_pc = "in_call"
    /\ rt_log' = Append(rt_log, "ok")
    /\ returned' = AttemptNo
    /\ rt_pc' = "returned"
    /\ UNCHANGED <<max_retries, delay, is_coro, attempt, last_exception, calls,
                   raised, waited, rlvars, bcvars, ssvars>>

\* func raises an Exception: it is remembered; then either the sleep starts
\* or, in the last round, the error is logged, the loop ends and the
\* remembered exception is raised
CallRaises(kind) ==
    /\ rt_pc = "in_call"
    /\ rt_log' = Append(rt_log, kind)
    /\ last_exception' = Remember(last_exception, <<AttemptNo, kind>>)
    /\ IF RetryLeft(attempt, max_retries)
       THEN /\ rt_pc' = "sleeping"
            /\ UNCHANGED <<attempt, raised>>
       ELSE ForNext(attempt + 1, last_exception')
    /\ UNCHANGED <<max_retries, delay, is_coro, calls, returned, waited,
                   rlvars, bcvars, ssvars>>

\* await asyncio.sleep(delay) is over, the for statement goes on
SleepDone ==
    /\ rt_pc = "sleeping"
    /\ rt_log' = Append(rt_log, "sleep")
    /\ waited' = waited + delay
    /\ ForNext(attempt + 1, last_exception)
    /\ UNCHANGED <<max_retries, delay, is_coro, last_exception, calls, returned,
                   rlvars, bcvars, ssvars>>

RTInit ==
    /\ max_retries = DefaultMaxRetries
    /\ delay = DefaultDelay
    /\ is_coro = FALSE
    /\ rt_pc = "defined"
    /\ attempt = 0
    /\ last_exception = NoExc
    /\ calls = 0
    /\ rt_log = <<>>
    /\ returned = NoAttempt
    /\ raised = NoExc
    /\ waited = 0

RTNext ==
    \/ \E m \in RetryChoices : \E d \in Delays : \E c \in BOOLEAN : Decorate(m, d, c)
    \/ Enter
    \/ Invoke
    \/ CallReturns
    \/ \E kind \in ExcKinds : CallRaises(kind)
    \/ SleepDone

Init == RLInit /\ BCInit /\ SSInit /\ RTInit

\* the rate limiter alone
SpecRL == Init /\ [][RLNext]_vars

\* the registry and the broadcasts alone
SpecBC == Init /\ [][BCNext]_vars

\* the streaming sessions alone
SpecSS == Init /\ [][SSNext]_vars

\* the same with the event loop's scheduling: a generator that is suspended
\* and can go on is resumed in the end, a pending cancellation is delivered
\* in the end. No such promise holds for live_marketdata_snapshot, a call to
\* an external service.
FairSpecSS ==
    SpecSS /\ \A s \in Sessions : WF_vars(Resume(s) \/ Wake(s) \/ Cancel(s))

\* streaming sessions served at the same time
SpecSC == Init /\ [][SCNext]_vars

\* the retrying wrapper alone
SpecRT == Init /\ [][RTNext]_vars

\* the same with the event loop's scheduling, for a func that comes back:
\* the wrapper's own steps are taken, the sleep ends, the call of func ends
\* by returning or raising
FairSpecRT ==
    SpecRT /\ WF_vars(Enter \/ Invoke \/ SleepDone)
           /\ WF_vars(CallReturns \/ \E kind \in ExcKinds : CallRaises(kind))

\* the event emitter with every kind of argument
SpecEV == Init /\ [][EVNext]_vars

\* the same with the event loop's scheduling: a send_json whose await can
\* complete (return or raise) is resumed in the end. A send at "blocked" is
\* one whose await never completes, the loop has nothing to resume.
FairSpecBC == SpecBC /\ \A t \in Tasks : WF_vars(SendOk(t) \/ SendFail(t))

(***************************************************************************)
(* Rate limiter: what the claims read                                      *)
(***************************************************************************)
\* request r has passed the admission check of dispatch in this step
Dispatched(r) == rpc[r] = "dispatch" /\ rpc'[r] # "dispatch"

\* r was answered 429 / r was let through to call_next
Rejected(r) == rtime[r] # NoTime /\ rresp[r] = "429"
Admitted(r) == rtime[r] # NoTime /\ rresp[r] # "429"

\* the timestamps of w that are not older than 60 s at time now, as the
\* specification words the eviction (a filter, not a loop over the head)
NotOlder(w, now) == SelectSeq(w, LAMBDA t : t >= now - 60)

IsSorted(w) == \A i, j \in 1..Len(w) : i <= j => w[i] <= w[j]

AdmittedIn(x, lo, hi) ==
    {r \in Reqs : rip[r] = x /\ Admitted(r) /\ lo <= rtime[r] /\ rtime[r] <= hi}

DispatchedOf(x) == {r \in Reqs : rip[r] = x /\ rtime[r] # NoTime}

Min(a, b) == IF a <= b THEN a ELSE b

\* C1: a dispatch for identity X at time now first drops X's timestamps older
\* than now-60; if at least requests_per_minute remain the request is answered
\* 429 and now is not appended to X's window, otherwise now is appended and the
\* request goes on to call_next.
C1_DispatchContract ==
    [][\A r \in Reqs : Dispatched(r) =>
        LET x == rip[r]
            kept == NotOlder(WindowOf(requests, x), clock)
        IN  IF Len(kept) >= requests_per_minute
            THEN /\ rresp'[r] = "429"
                 /\ rpc'[r] = "done"
                 /\ requests'[x] = kept
            ELSE /\ rresp'[r] = "none"
                 /\ rpc'[r] = "call_next"
                 /\ requests'[x] = Append(kept, clock)]_vars

C1_Witness ==
    \E r, q \in Reqs :
        /\ Rejected(r) /\ Admitted(q) /\ rip[r] = rip[q]
        /\ rtime[r] \notin {requests[rip[r]][i] : i \in 1..Len(requests[rip[r]])}
        /\ requests[rip[r]][Len(requests[rip[r]])] = rtime[q]
        /\ rtime[q] > rtime[r]

\* C2: strict sliding window: for every identity the number of calls admitted
\* inside any 60 second interval [t-60, t] never exceeds requests_per_minute.
C2_SlidingWindow ==
    \A x \in Clients : \A r \in Reqs :
        (rip[r] = x /\ Admitted(r)) =>
            Cardinality(AdmittedIn(x, rtime[r] - 60, rtime[r])) <= requests_per_minute

C2_Witness ==
    \E x \in Clients : \E r, q \in Reqs :
        /\ rip[r] = x /\ rip[q] = x
        /\ Rejected(r) /\ Admitted(q)
        /\ Cardinality(AdmittedIn(x, rtime[r] - 60, rtime[r])) = requests_per_minute
        /\ rtime[q] > rtime[r]
        /\ rtime[q] - 60 < rtime[r]

\* C3: when the calls of one identity all fall into one 60 second window that
\* was empty before, exactly min(number of calls, requests_per_minute) of them
\* are admitted and the others rejected, whatever the order in which the event
\* loop runs them: 2*L calls in flight together give L admitted and L rejected.
C3_ExactlyLimitAdmitted ==
    \A x \in Clients :
        LET D == DispatchedOf(x)
        IN  (D # {} /\ \A r, q \in D : rtime[r] - rtime[q] <= 60) =>
                /\ Cardinality({r \in D : Admitted(r)})
                       = Min(Cardinality(D), requests_per_minute)
                /\ Cardinality({r \in D : Rejected(r)})
                       = Cardinality(D) - Min(Cardinality(D), requests_per_minute)

C3_Witness ==
    \E x \in Clients :
        LET D == DispatchedOf(x)
        IN  /\ Cardinality(D) = 2 * requests_per_minute
            /\ \A r, q \in D : rtime[r] = rtime[q]
            /\ Cardinality({r \in D : Admitted(r)}) = requests_per_minute
            /\ Cardinality({r \in D : Rejected(r)}) = requests_per_minute

\* C4: a call for X made more than 60 seconds after the oldest timestamp of a
\* full window (the window X's calls were rejected on) is admitted.
C4_ReadmittedAfterSlide ==
    [][\A r \in Reqs : Dispatched(r) =>
        LET w == WindowOf(requests, rip[r])
        IN  (Len(w) >= requests_per_minute /\ clock > w[1] + 60) =>
                /\ rpc'[r] = "call_next"
                /\ rresp'[r] # "429"
                /\ requests'[rip[r]][Len(requests'[rip[r]])] = clock]_vars

C4_Witness ==
    \E x \in Clients : \E first, r0, r \in Reqs :
        /\ rip[first] = x /\ rip[r0] = x /\ rip[r] = x
        /\ Admitted(first) /\ Rejected(r0) /\ Admitted(r)
        /\ Cardinality(AdmittedIn(x, rtime[first], rtime[r0])) = requests_per_minute
        /\ \A q \in DispatchedOf(x) : rtime[first] <= rtime[q]
        /\ rtime[r] > rtime[first] + 60
        /\ rtime[r0] <= rtime[first] + 60

\* C5: at every admission check the window holds no timestamp older than
\* now-60: the timestamps are kept in order, the cleaning loop drops every old
\* one from the head, and the count compared against the limit is the count of
\* the timestamps that are not older than 60 seconds.
C5_WindowInvariant ==
    [][\A r \in Reqs : Dispatched(r) =>
        LET x == rip[r]
            w == requests'[x]
        IN  /\ \A i \in 1..Len(w) : w[i] >= clock - 60
            /\ IsSorted(w)
            /\ rresp'[r] = "429" <=>
                 Len(NotOlder(WindowOf(requests, x), clock)) >= requests_per_minute]_vars

C5_Witness ==
    \E x \in Clients : \E r, q, p \in Reqs :
        /\ r # q
        /\ rip[r] = x /\ rip[q] = x /\ rip[p] = x
        /\ Admitted(r) /\ Admitted(q) /\ Admitted(p)
        /\ rtime[r] < rtime[p] - 60 /\ rtime[q] < rtime[p] - 60
        /\ requests[x] = <<rtime[p]>>

\* C6: a dispatch for X leaves the window of every other identity as it was
\* (and creates none), and whether X is admitted is decided by X's own window
\* and the current time alone.
C6_NoInterference ==
    [][\A r \in Reqs : Dispatched(r) =>
        LET x == rip[r]
        IN  /\ \A y \in Clients \ {x} :
                 /\ y \in DOMAIN requests' <=> y \in DOMAIN requests
                 /\ y \in DOMAIN requests => requests'[y] = requests[y]
            /\ rpc'[r] = "call_next" <=>
                 Len(NotOlder(WindowOf(requests, x), clock)) < requests_per_minute]_vars

C6_Witness ==
    \E r, q \in Reqs :
        /\ rip[r] # rip[q]
        /\ Rejected(r) /\ Admitted(q)
        /\ rtime[q] >= rtime[r]
        /\ DOMAIN requests = Clients
        /\ Len(requests[rip[r]]) = requests_per_minute
        /\ requests[rip[q]] = <<rtime[q]>>

\* C7: a rate limited request is answered 429 and call_next is never invoked
\* for it; an admitted request invokes call_next exactly once; dispatch has no
\* other outcome.
C7_RejectionResult ==
    \A r \in Reqs :
        /\ rpc[r] \in {"idle", "dispatch", "call_next", "done"}
        /\ rcalls[r] <= 1
        /\ rresp[r] = "429" => (rcalls[r] = 0 /\ rpc[r] = "done")
        /\ (rpc[r] = "done" /\ rresp[r] # "429") =>
               (rcalls[r] = 1 /\ rresp[r] = "downstream")
        /\ rpc[r] \in {"call_next", "done"} => rtime[r] # NoTime
        /\ rpc[r] = "call_next" => (rcalls[r] = 0 /\ rresp[r] = "none")

C7_Witness ==
    \E r, q \in Reqs :
        /\ rpc[r] = "done" /\ rresp[r] = "429" /\ rcalls[r] = 0
        /\ rpc[q] = "done" /\ rresp[q] = "downstream" /\ rcalls[q] = 1
        /\ rip[r] = rip[q]

(***************************************************************************)
(* Broadcast: what the claims read                                         *)
(***************************************************************************)
\* handle h has received the message of broadcast t
Delivered(t, h) == \E i \in 1..Len(recv[h]) : recv[h][i] = t

DeliveredOf(t) == {h \in Sockets : Delivered(t, h)}

\* C8: a send that raises on one handle does not keep _broadcast from the other
\* handles: while the registry stays as it was when the broadcast began, the
\* broadcast is never ended by a send error, every registered handle is
\* delivered, failed, being sent to or still to come, and when the broadcast
\* has returned every handle whose send did not raise has the message.
C8_FailureIsolation ==
    \A t \in Tasks : quiet[t] =>
        /\ epc[t] # "raised"
        /\ DeliveredOf(t) \cap failed[t] = {}
        /\ epc[t] \in {"sending", "blocked"} =>
               start[t] = DeliveredOf(t) \cup failed[t] \cup {cur[t]} \cup todo[t]
        /\ epc[t] = "returned" =>
               \A h \in start[t] : h \in failed[t] \/ Delivered(t, h)

C8_Witness ==
    \E t \in Tasks : \E h, g \in Sockets :
        /\ quiet[t] /\ epc[t] = "returned"
        /\ start[t] = {h, g} /\ h # g
        /\ h \in failed[t]
        /\ Delivered(t, g)

\* C9: when the send to one subscriber never completes, every other subscriber
\* of the broadcast still gets its delivery: no handle is left waiting behind
\* the blocked send. (A broadcast at "blocked" takes no further step.)
C9_BlockedSendStallsNoOne ==
    \A t \in Tasks : epc[t] = "blocked" =>
        \A h \in (start[t] \cap connections) \ {cur[t]} :
            Delivered(t, h) \/ h \in failed[t]

\* C10: _broadcast never raises to its caller, whatever the sends do and
\* however subscribers connect and disconnect meanwhile.
C10_BroadcastNeverRaises ==
    \A t \in Tasks : epc[t] # "raised"

\* C11: a route call that emits an event gets through _broadcast in the end
\* (it returns its response), also when the send to a registered subscriber
\* never completes.
C11_EmitterReturns ==
    \A t \in Tasks :
        (epc[t] \in {"sending", "blocked"}) ~> (epc[t] \in {"returned", "raised"})

\* the number of times handle h has received the message of broadcast t
TimesDelivered(t, h) == Cardinality({i \in 1..Len(recv[h]) : recv[h][i] = t})

\* C12: subscribers may connect and disconnect while a broadcast is suspended
\* at a send: the broadcast does not crash, the registry holds exactly the
\* handles whose handler has added and not discarded them, and a handle that is
\* registered from the beginning of the broadcast to its end has the message
\* exactly once (unless its own send raised).
C12_SafeUnderMutation ==
    /\ connections = {h \in Sockets : wpc[h] \in {"receiving", "crashed"}}
    /\ \A t \in Tasks :
        /\ ~quiet[t] => epc[t] # "raised"
        /\ epc[t] \in {"returned", "raised"} =>
               \A h \in (start[t] \cap connections) \ failed[t] :
                   TimesDelivered(t, h) = 1

\* C13: once the websocket_feed handler of a handle has ended, whichever way
\* its receive loop ended, the handle is not in _connections, so no broadcast
\* begun afterwards resolves it.
C13_EndedHandlerUnregistered ==
    \A h \in Sockets : wpc[h] \in {"closed", "crashed"} => h \notin connections

\* C14: after the send to a handle has raised in one broadcast, no broadcast
\* that begins later attempts a send to that handle (stated for the send a
\* broadcast starts in the step in which it begins).
C14_FailedGetsNoLaterSend ==
    [][\A u \in Tasks : \A h \in Sockets :
           (epc[u] = "idle" /\ epc'[u] = "sending" /\ cur'[u] = h) =>
               \A t \in Tasks : h \notin failed[t]]_vars

\* C15: add of a handle that is in the set and discard of one that is not leave
\* the set as it is; after every step the registry holds exactly the handles
\* that were accepted and have not disconnected since; a handle enters it only
\* when it is accepted and leaves it only at its own disconnect, once.
C15_RegistryContract ==
    [][/\ \A h \in Sockets :
              /\ h \in connections => RegistryAdd(connections, h) = connections
              /\ h \notin connections => RegistryDiscard(connections, h) = connections
              /\ h \in RegistryAdd(connections, h)
              /\ h \notin RegistryDiscard(connections, h)
       /\ connections' = {h \in Sockets : wpc'[h] \in {"receiving", "crashed"}}
       /\ \A h \in Sockets :
              /\ (h \notin connections /\ h \in connections') =>
                     (wpc[h] = "none" /\ wpc'[h] = "receiving")
              /\ (h \in connections /\ h \notin connections') =>
                     (wpc[h] = "receiving" /\ wpc'[h] = "closed")
              /\ wpc[h] = "closed" => h \notin connections']_vars

C15_Witness ==
    \E h, g \in Sockets :
        /\ wpc[h] = "closed" /\ h \notin connections
        /\ wpc[g] = "receiving" /\ g \in connections

(***************************************************************************)
(* _send_event: what the claims read                                       *)
(***************************************************************************)
\* route call t has called _send_event
Called(t) == Len(call[t]) = 1

\* C16: every call of _send_event builds one envelope (time stamp, the source
\* tag it was given, the converted payload, the converted request or None when
\* no request was given) and invokes _broadcast with it exactly once.
C16_OneEnvelopeOneBroadcast ==
    \A t \in Tasks :
        /\ bcalls[t] <= 1
        /\ Called(t) =>
            /\ bcalls[t] = 1
            /\ Len(message[t]) = 1
            /\ message[t][1].time # NoTime
            /\ message[t][1].endpoint = call[t][1].endpoint
            /\ message[t][1].data = "json"
            /\ call[t][1].req = None => message[t][1].req = None
            /\ call[t][1].req # None => message[t][1].req = "json"

\* C17: _send_event called while the registry is empty completes without an
\* error and without a send, and the registry is empty afterwards.
C17_EmptyRegistryEmit ==
    [][\A t \in Tasks :
           (~Called(t) /\ Called(t)' /\ connections = {}) =>
               /\ epc'[t] = "returned"
               /\ issued' = issued
               /\ connections' = {}]_vars

\* C18: an exception of the payload conversion never leaves _send_event: the
\* call still invokes _broadcast, with an envelope that carries an error
\* marker in place of what could not be converted.
C18_ConversionFailureDegrades ==
    \A t \in Tasks :
        /\ epc[t] # "encoder_raised"
        /\ (Called(t) /\ EncoderRaises(call[t][1].data)) =>
               (bcalls[t] = 1 /\ Len(message[t]) = 1 /\ message[t][1].data = "error")
        /\ (Called(t) /\ call[t][1].req # None /\ EncoderRaises(call[t][1].req)) =>
               (bcalls[t] = 1 /\ Len(message[t]) = 1 /\ message[t][1].req = "error")

\* C19: route calls are numbered in the order in which they call _send_event.
\* A subscriber that receives the envelopes of two of them was sent the
\* earlier call's envelope before the later call's envelope.
C19_PerSubscriberOrder ==
    \A h \in Sockets : \A t, u \in Tasks :
        (t < u /\ Delivered(t, h) /\ Delivered(u, h)) =>
            IssuePos(h, t) < IssuePos(h, u)

(***************************************************************************)
(* Streaming sessions: what the claims read                                *)
(***************************************************************************)
\* session s starts a fetch in this step
StartsFetch(s) == spc[s] # "fetching" /\ spc'[s] = "fetching"

\* C20: every cycle of a streaming session is one fetch followed by one event,
\* the data event or the error event. After a data event the session sleeps 5
\* seconds, after an error event 10 seconds, and only then fetches again: the
\* next fetch starts no sooner than that after the event, and the length of the
\* wait depends on the outcome of the cycle just ended alone.
C20_StreamCycle ==
    [][\A s \in Sessions :
        /\ fetches'[s] = Len(out'[s]) + (IF spc'[s] = "fetching" THEN 1 ELSE 0)
        /\ (spc[s] = "fetching" /\ spc'[s] # "fetching") =>
               /\ spc'[s] = "yielded"
               /\ \E x \in {"data", "error"} : out'[s] = Append(out[s], x)
               /\ emit_at'[s] = loop_time
        /\ (spc[s] = "yielded" /\ spc'[s] = "sleeping") =>
               /\ LastOut(s) = "data" => wake'[s] = loop_time + 5
               /\ LastOut(s) = "error" => wake'[s] = loop_time + 10
        /\ StartsFetch(s) =>
               /\ spc[s] \in {"new", "sleeping"}
               /\ (spc[s] = "sleeping" /\ LastOut(s) = "data") =>
                      loop_time >= emit_at[s] + 5
               /\ (spc[s] = "sleeping" /\ LastOut(s) = "error") =>
                      loop_time >= emit_at[s] + 10
        /\ out'[s] # out[s] => spc[s] = "fetching"]_vars

C20_Witness ==
    \E s \in Sessions :
        /\ out[s] = <<"error", "data">>
        /\ spc[s] = "fetching"
        /\ fetches[s] = 3
        /\ loop_time = 15

\* the number of events of kind x among the events i..j that session s yielded
CountOut(s, x, i, j) == Cardinality({n \in i..j : out[s][n] = x})

\* C21: every cycle of a streaming session yields exactly one event: the error
\* event when its fetch raised, the data event otherwise. Over any run of k
\* consecutive cycles whose fetches all raised the session yields k error
\* events and no data event, and after each of them it is in the backoff wait
\* before it fetches again.
C21_ConsecutiveFailures ==
    \A s \in Sessions :
        /\ Len(out[s]) = Len(results[s])
        /\ fetches[s] = Len(results[s]) + (IF spc[s] = "fetching" THEN 1 ELSE 0)
        /\ \A i, j \in 1..Len(results[s]) :
               (i <= j /\ \A n \in i..j : results[s][n] = "raised") =>
                   /\ CountOut(s, "error", i, j) = j - i + 1
                   /\ CountOut(s, "data", i, j) = 0
        /\ \A n \in 1..Len(results[s]) :
               results[s][n] = "returned" => out[s][n] = "data"
        /\ (spc[s] = "sleeping" /\ results[s][Len(results[s])] = "raised") =>
               (wake[s] >= emit_at[s] + 10 /\ LastOut(s) = "error")

C21_Witness ==
    \E s \in Sessions :
        /\ results[s] = <<"raised", "raised", "raised">>
        /\ out[s] = <<"error", "error", "error">>
        /\ fetches[s] = 3
        /\ spc[s] = "sleeping"

\* C22: a failure of the external collaborator while a stream is served shows
\* as an error event in the stream and is followed by a retry; it never ends
\* the stream. A session ends only by cancellation.
C22_FailureNeverEndsStream ==
    \A s \in Sessions :
        /\ spc[s] # "failed"
        /\ spc[s] \in {"new", "fetching", "yielded", "sleeping", "closed"}

\* C23: once the consumer of a stream has disconnected, the session starts no
\* further fetch and yields nothing more.
C23_NothingAfterCancel ==
    [][\A s \in Sessions :
           cancel_req[s] => (out'[s] = out[s] /\ ~StartsFetch(s))]_vars

\* C24: a cancellation requested while a fetch is in flight tears the session
\* down without waiting for the fetch: the session reaches Closed also when
\* the fetch never returns.
C24_CancelDuringFetch ==
    \A s \in Sessions :
        (cancel_req[s] /\ spc[s] = "fetching") ~> (spc[s] = "closed")

\* C25: streaming sessions do not hold each other up: a session whose sleep is
\* over, and whose consumer is still there, is never kept from its next fetch
\* by the fetch of another session.
C25_SessionsIndependent ==
    \A s, r \in AllSessions :
        (s # r /\ busy = r) =>
            ~(spc[s] = "sleeping" /\ ~cancel_req[s] /\ loop_time > wake[s])

\* the positions of the log that are attempts, not sleeps
TriesIn(log) == {i \in DOMAIN log : log[i] # "sleep"}

\* the positions of the log that are failed attempts
FailsIn(log) == {i \in DOMAIN log : log[i] \in ExcKinds}

\* the number of the attempt logged at position i
AttemptAt(log, i) == Cardinality({j \in TriesIn(log) : j <= i})

\* the wrapper is over
Done == rt_pc \in {"returned", "raised"}

\* C26: when the operation fails on attempts 1..k-1 and succeeds on attempt k,
\* k <= max_retries + 1, the wrapper returns the result of attempt k and makes
\* no attempt after it; while such a k is still possible the wrapper does not
\* give up.
C26_SuccessReturned ==
    /\ \A i \in DOMAIN rt_log :
           rt_log[i] = "ok" =>
               /\ i = Len(rt_log)
               /\ \A j \in 1..(i - 1) : rt_log[j] # "ok"
               /\ rt_pc = "returned"
               /\ returned = AttemptAt(rt_log, i)
               /\ calls = returned
               /\ returned <= max_retries + 1
               /\ raised = NoExc
    /\ rt_pc = "returned" => (rt_log # <<>> /\ rt_log[Len(rt_log)] = "ok")
    /\ (rt_pc = "raised" /\ max_retries >= 0) =>
           Cardinality(FailsIn(rt_log)) = max_retries + 1

\* fails on attempts 1 and 2, succeeds on attempt 3, max_retries = 3
C26_Witness ==
    /\ max_retries = 3
    /\ rt_log = <<"ConnectionError", "sleep", "TimeoutError", "sleep", "ok">>
    /\ rt_pc = "returned"
    /\ returned = 3
    /\ calls = 3

\* C27: when the operation fails on all max_retries + 1 attempts, the wrapper
\* raises the exception of the last attempt as it was raised: not an earlier
\* one, not another one in its place, and it does not return.
C27_LastFailurePropagated ==
    /\ (max_retries >= 0 /\ Cardinality(FailsIn(rt_log)) = max_retries + 1) =>
           /\ rt_pc = "raised"
           /\ returned = NoAttempt
           /\ raised = <<max_retries + 1, rt_log[Len(rt_log)]>>
           /\ raised[2] \in ExcKinds
    /\ (max_retries >= 0 /\ rt_pc = "raised") =>
           /\ Cardinality(FailsIn(rt_log)) = max_retries + 1
           /\ raised = last_exception
    /\ (max_retries >= 0 /\ rt_pc # "raised") => raised = NoExc

\* all 4 attempts fail with max_retries = 3, the last one unlike the first
C27_Witness ==
    /\ max_retries = 3
    /\ calls = 4
    /\ rt_pc = "raised"
    /\ rt_log[1] = "ConnectionError"
    /\ raised = <<4, "TimeoutError">>

\* the positions of the log that are sleeps
SleepsIn(log) == {i \in DOMAIN log : log[i] = "sleep"}

\* attempts and delays as the wrapper accounts for them
Accounting ==
    /\ calls <= max_retries + 1
    /\ Done => calls >= 1
    /\ Cardinality(TriesIn(rt_log)) = calls - (IF rt_pc = "in_call" THEN 1 ELSE 0)
    /\ rt_log # <<>> => rt_log[1] # "sleep"
    /\ \A i \in 1..(Len(rt_log) - 1) :
           (rt_log[i] # "sleep") <=> (rt_log[i + 1] = "sleep")
    /\ \A i \in SleepsIn(rt_log) : rt_log[i - 1] \in ExcKinds
    /\ rt_pc = "sleeping" => (calls <= max_retries /\ rt_log[Len(rt_log)] \in ExcKinds)
    /\ Done => (rt_log[Len(rt_log)] # "sleep" /\ Cardinality(SleepsIn(rt_log)) = calls - 1)
    /\ waited = delay * Cardinality(SleepsIn(rt_log))

\* C28: for every max_retries >= 0 the operation is invoked at least once and
\* at most max_retries + 1 times, one delay is waited between two consecutive
\* attempts and none after a success or after the last failure, and a wrapper
\* whose operation comes back every time comes to its end.
C28_AttemptsAndDelays ==
    /\ [](max_retries >= 0 => Accounting)
    /\ (rt_pc = "decorated") ~> Done

\* three failures, three delays of 2, and no delay after the fourth failure
C28_Witness ==
    /\ max_retries = 3
    /\ delay = 2
    /\ rt_pc = "raised"
    /\ calls = 4
    /\ waited = 6
    /\ Len(rt_log) = 7

\* a step of some _broadcast: a send ends or the iterator moves
BroadcastStep ==
    \E t \in Tasks : epc[t] # epc'[t] \/ failed[t] # failed'[t] \/ cur[t] # cur'[t]

\* C29: _broadcast leaves the membership of _connections as it is in every
\* case: no step of a broadcast changes the set, a handle whose send raised is
\* still registered when the broadcast has returned, and a handle leaves the
\* set only by the disconnect of its own websocket_feed.
C29_BroadcastKeepsMembership ==
    [][/\ BroadcastStep => connections' = connections
       /\ \A t \in Tasks : \A h \in Sockets :
              (h \in failed'[t] /\ h \notin failed[t] /\ wpc[h] # "closed") =>
                  (h \in connections /\ h \in connections')
       /\ \A t \in Tasks : \A h \in failed'[t] :
              (epc'[t] = "returned" /\ wpc'[h] # "closed") => h \in connections'
       /\ \A h \in connections \ connections' :
              wpc[h] = "receiving" /\ wpc'[h] = "closed"]_vars

\* a broadcast has returned, the send to one of its handles raised, and the
\* handle, which has not disconnected, is still registered
C29_Witness ==
    \E t \in Tasks : \E h \in Sockets :
        /\ epc[t] = "returned"
        /\ h \in failed[t]
        /\ wpc[h] = "receiving"
        /\ h \in connections

\* C30: the cleaning loop drops the timestamps strictly older than now-60 and
\* no others: a timestamp exactly 60 seconds old stays and counts. So with a
\* full window a call exactly 60 seconds after the oldest timestamp is
\* rejected, and a call later than that is admitted.
C30_EvictionBoundary ==
    [][\A r \in Reqs : Dispatched(r) =>
        LET w == WindowOf(requests, rip[r])
            after == requests'[rip[r]]
            kept == SelectSeq(w, LAMBDA t : ~(t < clock - 60))
        IN  /\ after \in {kept, Append(kept, clock)}
            /\ \A i \in DOMAIN w :
                   w[i] = clock - 60 =>
                       \E j \in DOMAIN after : j <= Len(kept) /\ after[j] = w[i]
            /\ (Len(w) = requests_per_minute /\ w[1] = clock - 60) =>
                   /\ rresp'[r] = "429"
                   /\ rpc'[r] = "done"
                   /\ after = w
            /\ (Len(w) = requests_per_minute /\ w[1] < clock - 60) =>
                   /\ rresp'[r] # "429"
                   /\ rpc'[r] = "call_next"
                   /\ Len(after) <= requests_per_minute
                   /\ after[Len(after)] = clock]_vars

\* a call rejected exactly 60 seconds after the oldest timestamp of a full
\* window, all of whose timestamps are still in the window
C30_Witness ==
    \E x \in Clients : \E r \in Reqs :
        /\ rip[r] = x /\ Rejected(r)
        /\ Len(requests[x]) = requests_per_minute
        /\ requests[x][1] = rtime[r] - 60
        /\ clock = rtime[r]

====
